---- MODULE Spec2Model ----
(***************************************************************************)
(* Model of src/api_extraction.py: one HTTP GET against the Remotive API,  *)
(* extraction of the "jobs" array from the JSON body, pd.DataFrame(jobs),  *)
(* and df.to_csv("data/processed/remotive_jobs.csv", index=False).         *)
(*                                                                         *)
(* Text is modelled as a sequence of one-character strings so that CSV     *)
(* quoting, line structure and comma splitting are computed, not assumed.  *)
(***************************************************************************)
EXTENDS Integers, Sequences, FiniteSets, TLC

VARIABLES pc, response, jobs, df, fs, fs0, log, runs

vars == <<pc, response, jobs, df, fs, fs0, log, runs>>

-----------------------------------------------------------------------------
(* Bounds of the model. *)

\* Longest "jobs" array the upstream API answers with.
MaxJobs == 2

\* Number of times the script is invoked against the same filesystem.
MaxRuns == 2

-----------------------------------------------------------------------------
(* Characters and generic sequence helpers. *)

Comma == ","
Quote == "\""
NL == "\n"

RECURSIVE Concat(_)
Concat(ss) == IF ss = <<>> THEN <<>> ELSE Head(ss) \o Concat(Tail(ss))

RECURSIVE JoinWith(_, _)
JoinWith(ss, sep) ==
    IF ss = <<>> THEN <<>>
    ELSE IF Len(ss) = 1 THEN ss[1]
    ELSE ss[1] \o sep \o JoinWith(Tail(ss), sep)

Range(s) == {s[i] : i \in DOMAIN s}

SeqsUpTo(S, n) == UNION {[1..k -> S] : k \in 0..n}

-----------------------------------------------------------------------------
(* JSON values as response.json() yields them.  v holds the JSON text of a *)
(* scalar: the characters of a string, the digits of a number.             *)

StrV(s) == [t |-> "str", v |-> s]
IntV(d) == [t |-> "int", v |-> d]
BoolTrue == [t |-> "bool", v |-> <<"t", "r", "u", "e">>]
NullV == [t |-> "null", v |-> <<>>]

\* pandas' marker of a missing cell (float nan).
NaN == [t |-> "nan", v |-> <<>>]

KeyId == <<"i", "d">>
KeyTitle == <<"t", "i", "t", "l", "e">>
Keys == <<KeyId, KeyTitle>>

\* A job record is a JSON object: an ordered list of (key, value) fields.
Field(k, x) == [k |-> k, v |-> x]
KeysOf(rec) == {rec[i].k : i \in DOMAIN rec}
Lookup(rec, k) == rec[CHOOSE i \in DOMAIN rec : rec[i].k = k].v

\* An element of the "jobs" array: a mapping, or a scalar.
MapE(rec) == [isMap |-> TRUE, fields |-> rec, val |-> NullV]
ScalarE(x) == [isMap |-> FALSE, fields |-> <<>>, val |-> x]

-----------------------------------------------------------------------------
(* Flattener: pd.DataFrame(jobs).                                          *)

\* Keep the first occurrence of every element, in order.
RECURSIVE FirstSeen(_, _)
FirstSeen(s, acc) ==
    IF s = <<>> THEN acc
    ELSE FirstSeen(Tail(s), IF Head(s) \in Range(acc) THEN acc ELSE Append(acc, Head(s)))

\* ColumnsOf taking the columns from the first record alone.
ColumnsOfFirstRecord(js) == [j \in DOMAIN js[1].fields |-> js[1].fields[j].k]

\* Columns of a list of dicts: the union of the keys, first seen first.
ColumnsOf(js) ==
    FirstSeen(Concat([i \in DOMAIN js |->
                        [j \in DOMAIN js[i].fields |-> js[i].fields[j].k]]), <<>>)

\* A record's entry in a column: its value, or nan where it lacks the key.
RawCell(rec, k) == IF k \in KeysOf(rec) THEN Lookup(rec, k) ELSE NaN

IsNull(c) == c.t \in {"null", "nan"}

\* Type inference on one column: integers next to a missing value become
\* floats and the missing values nan; every other column keeps its objects.
ConvertColumn(col) ==
    LET present == {i \in DOMAIN col : ~IsNull(col[i])}
        numeric == present # {} /\ \A i \in present : col[i].t = "int"
    IN  IF numeric /\ present # DOMAIN col
        THEN [i \in DOMAIN col |->
                IF i \in present THEN [t |-> "float", v |-> col[i].v] ELSE NaN]
        ELSE col

\* repr() of a JSON scalar, as it appears inside str(dict).
PyRepr(x) ==
    CASE x.t = "str" ->
            <<"'">> \o Concat([i \in DOMAIN x.v |->
                         IF x.v[i] = NL THEN <<"\\", "n">> ELSE <<x.v[i]>>]) \o <<"'">>
      [] x.t = "bool" -> IF x.v = <<"t", "r", "u", "e">>
                         THEN <<"T", "r", "u", "e">>
                         ELSE <<"F", "a", "l", "s", "e">>
      [] x.t = "null" -> <<"N", "o", "n", "e">>
      [] OTHER -> x.v

\* str() of a dict held as one cell of an object column.
PyDictStr(rec) ==
    <<"{">> \o
    JoinWith([i \in DOMAIN rec |->
                <<"'">> \o rec[i].k \o <<"'", ":", " ">> \o PyRepr(rec[i].v)],
             <<",", " ">>) \o
    <<"}">>

NoFrame == [ok |-> FALSE, columns |-> <<>>, data |-> <<>>]

\* pd.DataFrame(jobs) for a JSON array: the frame, or ok = FALSE where the
\* constructor raises.
DataFrame(js) ==
    IF js = <<>> THEN [ok |-> TRUE, columns |-> <<>>, data |-> <<>>]
    ELSE IF js[1].isMap
    THEN \* list of dicts: every element is asked for its keys
         IF \E i \in DOMAIN js : ~js[i].isMap THEN NoFrame
         ELSE LET cols == ColumnsOf(js)
                  conv == [c \in DOMAIN cols |->
                             ConvertColumn([i \in DOMAIN js |->
                                              RawCell(js[i].fields, cols[c])])]
              IN  [ok |-> TRUE, columns |-> cols,
                   data |-> [i \in DOMAIN js |-> [c \in DOMAIN cols |-> conv[c][i]]]]
    ELSE \* first element a scalar: one object column labelled 0
         LET col == ConvertColumn([i \in DOMAIN js |->
                        IF js[i].isMap
                        THEN [t |-> "obj", v |-> PyDictStr(js[i].fields)]
                        ELSE js[i].val])
         IN  [ok |-> TRUE, columns |-> << <<"0">> >>,
              data |-> [i \in DOMAIN js |-> <<col[i]>>]]

-----------------------------------------------------------------------------
(* Writer: df.to_csv(path, index=False).                                   *)

\* Text of one cell: na_rep "" for missing values, str() for the rest.
CellText(c) ==
    CASE IsNull(c) -> <<>>
      [] c.t = "float" -> c.v \o <<".", "0">>
      [] c.t = "bool" -> PyRepr(c)
      [] OTHER -> c.v

\* csv.writer, QUOTE_MINIMAL: a field holding the delimiter, the quote
\* character or a line break is quoted, its quotes doubled.
NeedsQuote(s) == \E i \in DOMAIN s : s[i] \in {Comma, Quote, NL, "\r"}

QuoteField(s) ==
    <<Quote>> \o
    Concat([i \in DOMAIN s |-> IF s[i] = Quote THEN <<Quote, Quote>> ELSE <<s[i]>>]) \o
    <<Quote>>

\* WriteRow quoting every field (QUOTE_ALL).
WriteRowQuoteAll(fields) ==
    JoinWith([i \in DOMAIN fields |-> QuoteField(fields[i])], <<Comma>>) \o <<NL>>

\* WriteRow writing nothing, not even a line break, for a row without fields.
WriteRowSkipEmpty(fields) ==
    IF fields = <<>> THEN <<>>
    ELSE IF Len(fields) = 1 /\ fields[1] = <<>> THEN <<Quote, Quote, NL>>
    ELSE JoinWith([i \in DOMAIN fields |->
                     IF NeedsQuote(fields[i]) THEN QuoteField(fields[i])
                     ELSE fields[i]], <<Comma>>) \o <<NL>>

\* One row; a row that is a single empty field is written as "".
WriteRow(fields) ==
    IF Len(fields) = 1 /\ fields[1] = <<>> THEN <<Quote, Quote, NL>>
    ELSE JoinWith([i \in DOMAIN fields |->
                     IF NeedsQuote(fields[i]) THEN QuoteField(fields[i])
                     ELSE fields[i]], <<Comma>>) \o <<NL>>

\* ToCsv with the row index written as a first, unnamed column (index=True).
ToCsvWithIndex(frame) ==
    LET digits == <<"0", "1", "2", "3", "4", "5", "6", "7", "8", "9">>
    IN  WriteRow(<< <<>> >> \o frame.columns) \o
        Concat([i \in DOMAIN frame.data |->
                  WriteRow(<< <<digits[i]>> >> \o
                           [c \in DOMAIN frame.data[i] |-> CellText(frame.data[i][c])])])

\* The text to_csv produces: the header, then one row per record, no index.
ToCsv(frame) ==
    WriteRow(frame.columns) \o
    Concat([i \in DOMAIN frame.data |->
              WriteRow([c \in DOMAIN frame.data[i] |-> CellText(frame.data[i][c])])])

-----------------------------------------------------------------------------
(* The filesystem under data/processed/ and open(path, "w").               *)

\* dir: "missing", "readonly" (no write permission) or "writable";
\* exists/writable/content describe data/processed/remotive_jobs.csv.
NoFile(d) == [dir |-> d, exists |-> FALSE, writable |-> FALSE, content |-> <<>>]

\* A file left by an earlier, unrelated export.
StaleCsv == <<"i", "d", NL, "9", NL>>

InitialFs ==
    {NoFile(d) : d \in {"missing", "readonly", "writable"}} \cup
    {[dir |-> d, exists |-> TRUE, writable |-> w, content |-> StaleCsv] :
        d \in {"readonly", "writable"}, w \in BOOLEAN}

\* CanOpen of a writer that creates the missing directory first.
CanOpenMakeDirs(f) == IF f.exists THEN f.writable ELSE f.dir # "readonly"

\* Opening for writing truncates an existing file if the file is writable,
\* and creates a missing one if the directory exists and is writable.
CanOpen(f) ==
    /\ f.dir # "missing"
    /\ IF f.exists THEN f.writable ELSE f.dir = "writable"

\* Written of a file opened in append mode.
WrittenAppend(f, text) ==
    [dir |-> f.dir, exists |-> TRUE,
     writable |-> IF f.exists THEN f.writable ELSE TRUE,
     content |-> f.content \o text]

\* The file after a complete write of text: opened in mode "w", so the old
\* content is dropped.
Written(f, text) ==
    [dir |-> f.dir, exists |-> TRUE,
     writable |-> IF f.exists THEN f.writable ELSE TRUE,
     content |-> text]

-----------------------------------------------------------------------------
(* Inputs: what the upstream API may answer.                               *)

NoResponse == [status |-> 0, kind |-> "none", hasJobs |-> FALSE, jobs |-> <<>>]

\* Elements the pipeline runs are fed: two records with different key sets,
\* an empty record and a number.
SampleElems ==
    { MapE(<<Field(KeyId, IntV(<<"1">>)), Field(KeyTitle, StrV(<<"a">>))>>),
      MapE(<<Field(KeyTitle, StrV(<<Comma>>))>>),
      MapE(<<>>),
      ScalarE(IntV(<<"7">>)) }

\* kind "text": a body that is no JSON; "array": JSON whose top level is no
\* object; "object": a JSON object, with or without the key "jobs", whose
\* value is a JSON array.  The status is carried along; no statement reads it.
Responses ==
    {[status |-> st, kind |-> k, hasJobs |-> FALSE, jobs |-> <<>>] :
        st \in {200, 500}, k \in {"text", "array", "object"}} \cup
    {[status |-> st, kind |-> "object", hasJobs |-> TRUE, jobs |-> js] :
        st \in {200, 500}, js \in SeqsUpTo(SampleElems, MaxJobs)}

\* Values and records the table properties are checked on: plain text, text
\* holding the delimiter, the quote character or a line break, a number, a
\* boolean and null.
Values ==
    {StrV(<<"a">>), StrV(<<Comma>>), StrV(<<Quote>>), StrV(<<NL>>),
     IntV(<<"1">>), BoolTrue, NullV}

RecordOf(f) ==
    Concat([i \in DOMAIN Keys |-> IF f[i] = NaN THEN <<>> ELSE <<Field(Keys[i], f[i])>>])

Records == {RecordOf(f) : f \in [DOMAIN Keys -> Values \cup {NaN}]}

-----------------------------------------------------------------------------
(* The script, one action per statement.  log lists the stages a run has   *)
(* started; fs0 is the filesystem as the run found it.                     *)

Init ==
    /\ pc = "get"
    /\ response = NoResponse
    /\ jobs = <<>>
    /\ df = NoFrame
    /\ fs \in InitialFs
    /\ fs0 = fs
    /\ log = <<>>
    /\ runs = 1

\* RequestsGet issued again after a transport failure.
RequestsGetRetry ==
    /\ pc = "get" \/ (pc = "exit1" /\ log = <<"get">>)
    /\ log' = Append(log, "get")
    /\ \/ /\ pc' = "exit1"
          /\ UNCHANGED response
       \/ /\ response' \in Responses
          /\ pc' = "extract"
    /\ UNCHANGED <<jobs, df, fs, fs0, runs>>

\* line 6: response = requests.get(url).  A transport failure raises; any
\* answer, whatever its status code, is returned.
RequestsGet ==
    /\ pc = "get"
    /\ log' = Append(log, "get")
    /\ \/ /\ pc' = "exit1"
          /\ UNCHANGED response
       \/ /\ response' \in Responses
          /\ pc' = "extract"
    /\ UNCHANGED <<jobs, df, fs, fs0, runs>>

\* line 7: jobs = response.json()["jobs"].  json() raises on a body that is
\* no JSON, the subscript raises on a missing key or a non-object.
ResponseJson ==
    /\ pc = "extract"
    /\ log' = Append(log, "extract")
    /\ IF response.kind = "object" /\ response.hasJobs
       THEN jobs' = response.jobs /\ pc' = "frame"
       ELSE jobs' = jobs /\ pc' = "exit1"
    /\ UNCHANGED <<response, df, fs, fs0, runs>>

\* line 9: df = pd.DataFrame(jobs).
MakeDataFrame ==
    /\ pc = "frame"
    /\ log' = Append(log, "frame")
    /\ LET frame == DataFrame(jobs)
       IN  IF frame.ok
           THEN df' = frame /\ pc' = "csv"
           ELSE df' = df /\ pc' = "exit1"
    /\ UNCHANGED <<response, jobs, fs, fs0, runs>>

\* DfToCsv also runnable as the first statement, before the fetch.
DfToCsvFirst ==
    /\ pc \in {"get", "csv"}
    /\ log' = Append(log, "csv")
    /\ IF CanOpen(fs)
       THEN fs' = Written(fs, ToCsv(df)) /\ pc' = "exit0"
       ELSE fs' = fs /\ pc' = "exit1"
    /\ UNCHANGED <<response, jobs, df, fs0, runs>>

\* line 10: df.to_csv("data/processed/remotive_jobs.csv", index=False).
DfToCsv ==
    /\ pc = "csv"
    /\ log' = Append(log, "csv")
    /\ IF CanOpen(fs)
       THEN fs' = Written(fs, ToCsv(df)) /\ pc' = "exit0"
       ELSE fs' = fs /\ pc' = "exit1"
    /\ UNCHANGED <<response, jobs, df, fs0, runs>>

\* The script is invoked again: a fresh process, the same filesystem.
NewRun ==
    /\ pc \in {"exit0", "exit1"}
    /\ runs < MaxRuns
    /\ pc' = "get"
    /\ response' = NoResponse
    /\ jobs' = <<>>
    /\ df' = NoFrame
    /\ fs0' = fs
    /\ log' = <<>>
    /\ runs' = runs + 1
    /\ UNCHANGED fs

Next == RequestsGet \/ ResponseJson \/ MakeDataFrame \/ DfToCsv \/ NewRun

Spec == Init /\ [][Next]_vars

\* Flattener and Writer alone, on every list of up to MaxJobs records.
InitTable ==
    /\ pc = "frame"
    /\ jobs \in SeqsUpTo({MapE(r) : r \in Records}, MaxJobs)
    /\ response = [status |-> 200, kind |-> "object", hasJobs |-> TRUE, jobs |-> jobs]
    /\ df = NoFrame
    /\ fs = NoFile("writable")
    /\ fs0 = fs
    /\ log = <<"get", "extract">>
    /\ runs = 1

NextTable == MakeDataFrame \/ DfToCsv

SpecTable == InitTable /\ [][NextTable]_vars

-----------------------------------------------------------------------------
(* Readers used to state the properties of the written file.               *)

RECURSIVE SplitFrom(_, _, _, _, _)
SplitFrom(s, i, sep, cur, acc) ==
    IF i > Len(s) THEN Append(acc, cur)
    ELSE IF s[i] = sep THEN SplitFrom(s, i + 1, sep, <<>>, Append(acc, cur))
    ELSE SplitFrom(s, i + 1, sep, Append(cur, s[i]), acc)

\* s.split(sep)
SplitOn(s, sep) == SplitFrom(s, 1, sep, <<>>, <<>>)

\* The lines of a text, without their terminators.
Lines(text) ==
    LET p == SplitOn(text, NL)
    IN  IF p[Len(p)] = <<>> THEN SubSeq(p, 1, Len(p) - 1) ELSE p

\* A CSV reader that honours quoting: the rows of a text, each a sequence of
\* fields.  st: "start" of a row, "fstart" of a field, "plain" inside an
\* unquoted field, "quoted" inside a quoted one, "qq" after a quote in it.
RECURSIVE CsvRead(_, _, _, _, _, _)
CsvRead(s, i, st, field, row, rows) ==
    IF i > Len(s)
    THEN IF st = "start" THEN rows ELSE Append(rows, Append(row, field))
    ELSE LET c == s[i]
             endRow == Append(rows, Append(row, field))
             endField == Append(row, field)
         IN  CASE st \in {"start", "fstart"} ->
                    (CASE c = NL ->
                            CsvRead(s, i + 1, "start", <<>>, <<>>,
                                    IF st = "start" THEN Append(rows, <<>>) ELSE endRow)
                       [] c = Quote -> CsvRead(s, i + 1, "quoted", <<>>, row, rows)
                       [] c = Comma -> CsvRead(s, i + 1, "fstart", <<>>, endField, rows)
                       [] OTHER -> CsvRead(s, i + 1, "plain", <<c>>, row, rows))
               [] st = "plain" ->
                    (CASE c = NL -> CsvRead(s, i + 1, "start", <<>>, <<>>, endRow)
                       [] c = Comma -> CsvRead(s, i + 1, "fstart", <<>>, endField, rows)
                       [] OTHER -> CsvRead(s, i + 1, "plain", Append(field, c), row, rows))
               [] st = "quoted" ->
                    (CASE c = Quote -> CsvRead(s, i + 1, "qq", field, row, rows)
                       [] OTHER -> CsvRead(s, i + 1, "quoted", Append(field, c), row, rows))
               [] OTHER ->
                    (CASE c = Quote -> CsvRead(s, i + 1, "quoted", Append(field, c), row, rows)
                       [] c = NL -> CsvRead(s, i + 1, "start", <<>>, <<>>, endRow)
                       [] c = Comma -> CsvRead(s, i + 1, "fstart", <<>>, endField, rows)
                       [] OTHER -> CsvRead(s, i + 1, "plain", Append(field, c), row, rows))

ParseCsv(text) == CsvRead(text, 1, "start", <<>>, <<>>, <<>>)

UnionKeys(js) == UNION {KeysOf(js[i].fields) : i \in DOMAIN js}

IsPrefix(s, t) == Len(s) <= Len(t) /\ \A i \in DOMAIN s : s[i] = t[i]

Count(x, s) == Cardinality({i \in DOMAIN s : s[i] = x})

Stages == <<"get", "extract", "frame", "csv">>

-----------------------------------------------------------------------------
(* Properties of the written table (SpecTable).                            *)

\* C1: the columns of the written table are the union of the keys of all
\* records, each once, and a record's cell is empty in every column whose
\* key the record lacks.
C1_UnionColumns ==
    pc = "exit0" =>
        LET t == ParseCsv(fs.content)
        IN  /\ Len(t) = Len(jobs) + 1
            /\ Range(t[1]) = UnionKeys(jobs)
            /\ Len(t[1]) = Cardinality(UnionKeys(jobs))
            /\ \A i \in DOMAIN jobs : \A c \in DOMAIN t[1] :
                   t[1][c] \notin KeysOf(jobs[i].fields) =>
                       /\ c \in DOMAIN t[i + 1]
                       /\ t[i + 1][c] = <<>>

\* A written table of two records with different key sets.
C1_Witness ==
    /\ pc = "exit0"
    /\ Len(jobs) = 2
    /\ KeysOf(jobs[1].fields) = {KeyId}
    /\ KeysOf(jobs[2].fields) = {KeyId, KeyTitle}
    /\ ParseCsv(fs.content)[2][2] = <<>>

SharedKeys(js) ==
    \A i \in DOMAIN js : \A j \in DOMAIN js : KeysOf(js[i].fields) = KeysOf(js[j].fields)

\* C2: for N records sharing one key set the file holds one header row and
\* N data rows, row i belonging to record i, each row with exactly one field
\* per key (no index column).
C2_RowPerRecord ==
    (pc = "exit0" /\ SharedKeys(jobs)) =>
        LET t == ParseCsv(fs.content)
        IN  /\ Len(t) = Len(jobs) + 1
            /\ Range(t[1]) = UnionKeys(jobs)
            /\ \A r \in DOMAIN t : Len(t[r]) = Cardinality(UnionKeys(jobs))
            /\ \A i \in DOMAIN jobs : \A c \in DOMAIN t[1] :
                   LET x == Lookup(jobs[i].fields, t[1][c])
                   IN  x.t = "str" => t[i + 1][c] = x.v

\* Two records with the same two keys, one value holding a line break.
C2_Witness ==
    /\ pc = "exit0"
    /\ Len(jobs) = 2
    /\ SharedKeys(jobs)
    /\ KeysOf(jobs[1].fields) = {KeyId, KeyTitle}
    /\ Lookup(jobs[2].fields, KeyTitle) = StrV(<<NL>>)
    /\ Len(ParseCsv(fs.content)) = 3

\* Whether a field read back equals the input value x: its text, a boolean
\* also in Python's spelling.
SameValue(f, x) == f = x.v \/ (x.t = "bool" /\ f = PyRepr(x))

\* C5 as stated: reading the file line by line and splitting each line on
\* commas gives, for each record in order, fields whose non-empty values are
\* exactly the record's non-empty values, keyed by the header names.
C5_NaiveRoundTrip ==
    pc = "exit0" =>
        LET lines == Lines(fs.content)
            hdr == SplitOn(lines[1], Comma)
        IN  /\ Len(lines) >= Len(jobs) + 1
            /\ \A i \in DOMAIN jobs :
                   LET rec == jobs[i].fields
                       f == SplitOn(lines[i + 1], Comma)
                   IN  /\ \A c \in DOMAIN f :
                              f[c] # <<>> =>
                                  /\ c \in DOMAIN hdr
                                  /\ hdr[c] \in KeysOf(rec)
                                  /\ SameValue(f[c], Lookup(rec, hdr[c]))
                       /\ \A k \in KeysOf(rec) :
                              Lookup(rec, k).v # <<>> =>
                                  \E c \in DOMAIN f :
                                      /\ c \in DOMAIN hdr
                                      /\ hdr[c] = k
                                      /\ SameValue(f[c], Lookup(rec, k))

\* No string value holds the delimiter, the quote character or a line break.
CleanText(js) ==
    \A i \in DOMAIN js : \A j \in DOMAIN js[i].fields :
        LET x == js[i].fields[j].v
        IN  x.t = "str" => ~\E n \in DOMAIN x.v : x.v[n] \in {Comma, Quote, NL, "\r"}

\* A column holds a missing or null entry and otherwise integers only.
FloatColumn(js, k) ==
    LET cells == [i \in DOMAIN js |-> RawCell(js[i].fields, k)]
    IN  /\ \E i \in DOMAIN js : cells[i].t \in {"nan", "null"}
        /\ \E i \in DOMAIN js : cells[i].t = "int"
        /\ \A i \in DOMAIN js : cells[i].t \in {"nan", "null", "int"}

\* The text a value is expected to come back as.
ExpectedText(js, k, x) ==
    CASE x.t \in {"nan", "null"} -> <<>>
      [] x.t = "bool" -> IF x.v = <<"t", "r", "u", "e">>
                         THEN <<"T", "r", "u", "e">>
                         ELSE <<"F", "a", "l", "s", "e">>
      [] x.t = "int" -> IF FloatColumn(js, k) THEN x.v \o <<".", "0">> ELSE x.v
      [] OTHER -> x.v

\* C5 amended: when no string value holds a comma, a double quote or a line
\* break, the file has one line per record after the header, every line
\* splits on commas into one field per column, and each field is the
\* record's value in that column: a string unchanged, true as True, an
\* integer as written or as a float (1 as 1.0) in a column with a missing
\* entry, a missing or null value empty (a sole empty field of a row reads
\* back as two quote characters).
C5_CleanRoundTrip ==
    (pc = "exit0" /\ CleanText(jobs)) =>
        LET lines == Lines(fs.content)
            hdr == IF UnionKeys(jobs) = {} THEN <<>> ELSE SplitOn(lines[1], Comma)
        IN  /\ Len(lines) = Len(jobs) + 1
            /\ Range(hdr) = UnionKeys(jobs)
            /\ Len(hdr) = Cardinality(UnionKeys(jobs))
            /\ \A i \in DOMAIN jobs :
                   LET rec == jobs[i].fields
                       f == IF hdr = <<>> THEN <<>> ELSE SplitOn(lines[i + 1], Comma)
                   IN  /\ Len(f) = Len(hdr)
                       /\ (hdr = <<>> => lines[i + 1] = <<>>)
                       /\ \A c \in DOMAIN f :
                              LET want == ExpectedText(jobs, hdr[c], RawCell(rec, hdr[c]))
                              IN  IF Len(hdr) = 1 /\ want = <<>>
                                  THEN f[c] = <<Quote, Quote>>
                                  ELSE f[c] = want

\* A clean table of two records where an integer shares its column with a
\* missing entry and a string comes back unchanged.
C5_Witness ==
    /\ pc = "exit0"
    /\ CleanText(jobs)
    /\ Len(jobs) = 2
    /\ jobs[1].fields = <<Field(KeyId, IntV(<<"1">>)), Field(KeyTitle, StrV(<<"a">>))>>
    /\ jobs[2].fields = <<Field(KeyTitle, StrV(<<"a">>))>>
    /\ SplitOn(Lines(fs.content)[2], Comma) = << <<"1", ".", "0">>, <<"a">> >>

-----------------------------------------------------------------------------
(* Properties of whole runs (Spec).                                        *)

Answered == response.kind # "none"

HasJobs == response.kind = "object" /\ response.hasJobs

\* C3: a response without the key "jobs", or with a status outside 2xx, ends
\* the run in a fatal error and leaves the output file as the run found it.
C3_BadResponseFatal ==
    (Answered /\ (~HasJobs \/ response.status \notin 200..299)) =>
        /\ pc # "exit0"
        /\ fs = fs0

\* C4: with an empty "jobs" array the flattening does not fail, the run can
\* fail only where the destination cannot be opened, and the file of a
\* successful run is one header row without columns and no data row.
C4_EmptyJobs ==
    (HasJobs /\ response.jobs = <<>> /\ Len(log) >= 2) =>
        /\ jobs = <<>>
        /\ pc = "exit1" => (log = Stages /\ ~CanOpen(fs0))
        /\ pc = "exit0" =>
               /\ fs.exists
               /\ Lines(fs.content) = << <<>> >>
               /\ ParseCsv(fs.content) = << <<>> >>

\* A successful run on an empty array, over an older file.
C4_Witness ==
    /\ pc = "exit0"
    /\ HasJobs
    /\ response.jobs = <<>>
    /\ fs0.exists
    /\ fs.content = <<NL>>

\* C6: a run issues at most one GET and attempts at most one write, and
\* after a failure nothing of the run executes: the only step left is the
\* next invocation, which touches neither the network nor the file.
C6_NoRetry ==
    [][/\ Count("get", log') <= 1
       /\ Count("csv", log') <= 1
       /\ pc = "exit1" => (pc' = "get" /\ log' = <<>> /\ runs' = runs + 1 /\ fs' = fs)]_vars

\* A second run that failed in the extraction, after its one GET.
C6_Witness ==
    /\ runs = 2
    /\ pc = "exit1"
    /\ log = <<"get", "extract">>

\* C7: after a successful run the file holds exactly the table of that run's
\* response, one header row and one row per element, whatever it held
\* before.
C7_Overwrite ==
    pc = "exit0" =>
        /\ fs.exists
        /\ fs.content = ToCsv(DataFrame(response.jobs))
        /\ Len(ParseCsv(fs.content)) = Len(response.jobs) + 1

\* A second successful run over the different table the first run wrote.
C7_Witness ==
    /\ pc = "exit0"
    /\ runs = 2
    /\ fs0.exists
    /\ fs0.content \notin {StaleCsv, fs.content}
    /\ Len(fs0.content) > Len(fs.content)

Attempted == "csv" \in Range(log)

\* C8 as stated: with the directory missing or not writable at write time
\* the run fails, the directory is not created and no output file exists
\* afterwards.
C8_NoDirFatal ==
    (Attempted /\ fs0.dir \in {"missing", "readonly"}) =>
        /\ pc = "exit1"
        /\ fs.dir = fs0.dir
        /\ ~fs.exists

\* C8 amended: the program never creates or changes the directory; with the
\* directory missing the write fails and no file exists afterwards; with
\* the directory present but not writable the write fails, creating no
\* file, where the file does not exist yet; an existing file is
\* overwritten exactly when the file itself is writable, and is left as it
\* was otherwise.
C8_WriteFailures ==
    Attempted =>
        /\ fs.dir = fs0.dir
        /\ fs0.dir = "missing" => (pc = "exit1" /\ ~fs.exists)
        /\ (fs0.dir = "readonly" /\ ~fs0.exists) => (pc = "exit1" /\ ~fs.exists)
        /\ (fs0.exists /\ ~fs0.writable) => (pc = "exit1" /\ fs = fs0)
        /\ (fs0.exists /\ fs0.writable) => (pc = "exit0" /\ fs.exists)

\* A write that failed because data/processed/ does not exist.
C8_Witness ==
    /\ Attempted
    /\ fs0.dir = "missing"
    /\ pc = "exit1"
    /\ ~fs.exists

\* C9: the stages of a run start in the order get, extract, frame, csv, each
\* at most once; the file changes only in the write, after the response was
\* fetched, its "jobs" extracted and flattened; the write is followed by
\* the exit, and so is the first error.
C9_StageOrder ==
    [][/\ IsPrefix(log', Stages)
       /\ fs' # fs => /\ pc = "csv"
                      /\ log = <<"get", "extract", "frame">>
                      /\ HasJobs
                      /\ jobs = response.jobs
                      /\ df.ok
       /\ pc' \in {"exit0", "exit1"} <=> (pc' = "exit1" \/ log' = Stages)
       /\ pc \in {"exit0", "exit1"} => (log' = <<>> /\ fs' = fs)]_vars

\* A run that went through all four stages and changed the file.
C9_Witness ==
    /\ pc = "exit0"
    /\ log = Stages
    /\ fs # fs0

\* C10: a "jobs" array holding an element that is no mapping makes the
\* flattening fail: the run ends in a fatal error and writes no file.
C10_NonMappingFatal ==
    ((\E i \in DOMAIN jobs : ~jobs[i].isMap) /\ pc \in {"exit0", "exit1"}) =>
        /\ pc = "exit1"
        /\ log = <<"get", "extract", "frame">>
        /\ fs = fs0

====
